---- MODULE Spec2Model ----
(***************************************************************************)
(* Process-embedding launcher (src/app.py): MainWindow navigation          *)
(* (open_project / go_back), EmbeddedAppWidget (spawn, polling try_embed,  *)
(* resize, closeEvent) and the operating-system state they act on (child   *)
(* processes and their top-level windows).                                 *)
(***************************************************************************)
EXTENDS Integers, Sequences, FiniteSets, TLC

\* ------------------------------------------------------------- bounds
MaxSessions == 2
MaxWindows == 1
ExtraSize == 1

\* ------------------------------------------------- program constants
GracePolls == 20
MIN_W == 300
MIN_H == 200

Sessions == 1..MaxSessions
WindowIds == 1..MaxWindows
\* Sizes <<width, height>> the layout gives the host widget: never below
\* its minimum size.
HostSizes == {<<MIN_W + i, MIN_H + i>> : i \in 0..ExtraSize}

VARIABLES
    isWindows,    \* IS_WINDOWS, fixed for the run
    mainOpen,     \* the main window is shown and the event loop runs
    nSessions,    \* number of ProjectPage objects constructed so far
    stack,        \* QStackedWidget: sequence of widget ids, 0 is the home page
    currentIndex, \* QStackedWidget.currentIndex() (0-based)
    back_stack,   \* MainWindow.back_stack
    view,         \* per session: "none" | "shown" | "deleted"
    embed,        \* per session: the fields of its EmbeddedAppWidget
    spawnAttempts,\* per live widget: number of subprocess.Popen calls it made
    closeCalls,   \* per live widget: closeEvent calls delivered to it (0, 1, 2 for more)
    opLog,        \* the OS calls, in order, made by the handler that has just run
    osProc,       \* per session: the spawned OS process "none" | "running" | "exited"
    win,          \* per window id: the OS window
    lastHandler,  \* the handler (or "env") that took the last step
    tickParity,   \* parity of the timer ticks since the last other step
    raised        \* the handler that has just run let an exception escape

vars == <<isWindows, mainOpen, nSessions, stack, currentIndex, back_stack, view,
          embed, spawnAttempts, closeCalls, opLog, osProc, win, lastHandler,
          tickParity, raised>>

\* ------------------------------------------------------ window styles
WS_CAPTION == {"BORDER", "DLGFRAME"}
WS_OVERLAPPEDWINDOW ==
    WS_CAPTION \cup {"SYSMENU", "THICKFRAME", "MINIMIZEBOX", "MAXIMIZEBOX"}
StripMask ==
    WS_CAPTION \cup {"THICKFRAME", "MINIMIZEBOX", "MAXIMIZEBOX", "SYSMENU"}

\* Styles a foreign process gives a window it creates.
InitStyles ==
    { WS_OVERLAPPEDWINDOW \cup {"VISIBLE"},
      WS_OVERLAPPEDWINDOW,
      {"VISIBLE", "POPUP"} }

\* Geometry a foreign process gives its window: <<x, y, w, h>>.
OrigGeom == <<40, 40, 120, 90>>

NoWindow == [st |-> "absent", pid |-> 0, style |-> {}, parent |-> "desktop",
             geom |-> OrigGeom]

\* A destroyed window: nothing of it can be queried any more.
Gone(wrec) == [NoWindow EXCEPT !.st = "gone"]

\* One OS call of a handler: its name, its source line and its result.
Op(name, line, res) == [op |-> name, line |-> line, res |-> res]

\* ------------------------------------------------------------ widget
\* EmbeddedAppWidget after "lay.addWidget(self.info)", before any launch.
NewWidget(isfile, w, h) ==
    [exe_file |-> isfile, proc |-> "none", hwnd |-> 0, infoText |-> "loading",
     infoVisible |-> TRUE, timer |-> FALSE, width |-> w, height |-> h]

\* A widget that does not exist (not constructed yet, or destroyed).
NoWidget ==
    [exe_file |-> FALSE, proc |-> "none", hwnd |-> 0, infoText |-> "none",
     infoVisible |-> FALSE, timer |-> FALSE, width |-> MIN_W, height |-> MIN_H]

Max(a, b) == IF a >= b THEN a ELSE b

\* ---------------------------------------------------------- locator
\* Mutant of callback: the style test of line 59 is dropped.
callback_no_style(w, pid) ==
    /\ "VISIBLE" \in win[w].style
    /\ win[w].pid = pid

\* callback(hwnd, _): TRUE when the enumeration stops at this window.
callback(w, pid) ==
    /\ "VISIBLE" \in win[w].style
    /\ win[w].pid = pid
    /\ (win[w].style \cap WS_OVERLAPPEDWINDOW # {} \/ win[w].style \cap WS_CAPTION # {})

\* win32gui.EnumWindows: the top-level windows that exist.
EnumWindows == {w \in WindowIds : win[w].st = "alive" /\ win[w].parent = "desktop"}

\* find_main_window_for_pid: the first qualifying window in enumeration
\* order (ascending id), 0 for None.
find_main_window_for_pid(pid) ==
    LET hits == {w \in EnumWindows : callback(w, pid)}
    IN IF hits = {} THEN 0 ELSE CHOOSE w \in hits : \A v \in hits : w <= v

\* ----------------------------------------------------------- reshape
\* Mutant of StripDecorations: WS_SYSMENU is missing from the mask.
StripDecorations_KeepSysmenu(style) == style \ (StripMask \ {"SYSMENU"})

StripDecorations(style) == style \ StripMask

MoveWindow(wrec, x, y, w, h) ==
    IF wrec.st = "alive"
    THEN [ok |-> TRUE, win |-> [wrec EXCEPT !.geom = <<x, y, w, h>>],
          log |-> <<Op("MoveWindow", 140, "ok")>>]
    ELSE [ok |-> FALSE, win |-> wrec, log |-> <<Op("MoveWindow", 140, "raise")>>]

Min(a, b) == IF a <= b THEN a ELSE b

\* Mutant of resize_embedded: min() written for max().
resize_embedded_min(wrec, width, height) ==
    MoveWindow(wrec, 0, 0, Min(1, width), Min(1, height))

\* _resize_embedded on the window record of self.hwnd.
resize_embedded(wrec, width, height) ==
    MoveWindow(wrec, 0, 0, Max(1, width), Max(1, height))

\* What can go wrong in one poll tick once a window was found: the window
\* is destroyed before one of the calls, or the OS refuses the call.
TickFaults ==
    {"none", "vanish_before_style", "style_denied", "vanish_before_parent",
     "parent_denied", "vanish_before_move"}

GetStyleOk == <<Op("GetWindowLong", 121, "ok")>>
SetStyleOk == GetStyleOk \o <<Op("SetWindowLong", 124, "ok")>>
SetParentOk == SetStyleOk \o <<Op("SetParent", 125, "ok")>>

\* The try block of try_embed on the found window: [ok, win, log].
EmbedTry(wrec, fault, width, height) ==
    LET stripped == [wrec EXCEPT !.style = StripDecorations(@)]
        child == [stripped EXCEPT !.parent = "host"]
        moved == resize_embedded(IF fault = "vanish_before_move" THEN Gone(child)
                                 ELSE child, width, height)
    IN CASE fault = "vanish_before_style" ->
              [ok |-> FALSE, win |-> Gone(wrec),
               log |-> <<Op("GetWindowLong", 121, "raise")>>]
         [] fault = "style_denied" ->
              [ok |-> FALSE, win |-> wrec,
               log |-> GetStyleOk \o <<Op("SetWindowLong", 124, "raise")>>]
         [] fault = "vanish_before_parent" ->
              [ok |-> FALSE, win |-> Gone(stripped),
               log |-> SetStyleOk \o <<Op("SetParent", 125, "raise")>>]
         [] fault = "parent_denied" ->
              [ok |-> FALSE, win |-> stripped,
               log |-> SetStyleOk \o <<Op("SetParent", 125, "raise")>>]
         [] OTHER -> [moved EXCEPT !.log = SetParentOk \o @]

\* ------------------------------------------------------------- Init
Init ==
    /\ isWindows \in BOOLEAN
    /\ mainOpen = TRUE
    /\ nSessions = 0
    /\ stack = <<0>>
    /\ currentIndex = 0
    /\ back_stack = <<>>
    /\ view = [s \in Sessions |-> "none"]
    /\ embed = [s \in Sessions |-> NoWidget]
    /\ spawnAttempts = [s \in Sessions |-> 0]
    /\ closeCalls = [s \in Sessions |-> 0]
    /\ opLog = <<>>
    /\ osProc = [s \in Sessions |-> "none"]
    /\ win = [w \in WindowIds |-> NoWindow]
    /\ lastHandler = "none"
    /\ tickParity = FALSE
    /\ raised = FALSE

\* ---------------------------------------------------------- launch
\* _launch_external: Popen without keeping the handle. [widget, spawned, attempts]
launch_external(e, spawnOk) ==
    IF spawnOk
    THEN [widget |-> [e EXCEPT !.infoText = "opened_external"],
          spawned |-> TRUE, attempts |-> 1]
    ELSE [widget |-> [e EXCEPT !.infoText = "err_external"],
          spawned |-> FALSE, attempts |-> 1]

\* Mutant of launch_and_embed: the poll timer is started although Popen raised.
launch_and_embed_timer(e, spawnOk) ==
    IF ~e.exe_file
    THEN [widget |-> [e EXCEPT !.infoText = "not_found"],
          spawned |-> FALSE, attempts |-> 0]
    ELSE IF ~spawnOk
    THEN [widget |-> [e EXCEPT !.infoText = "spawn_error", !.timer = TRUE],
          spawned |-> FALSE, attempts |-> 1]
    ELSE [widget |-> [e EXCEPT !.proc = "popen", !.timer = TRUE],
          spawned |-> TRUE, attempts |-> 1]

\* _launch_and_embed: isfile check, Popen kept in self.proc, timer.start(100).
launch_and_embed(e, spawnOk) ==
    IF ~e.exe_file
    THEN [widget |-> [e EXCEPT !.infoText = "not_found"],
          spawned |-> FALSE, attempts |-> 0]
    ELSE IF ~spawnOk
    THEN [widget |-> [e EXCEPT !.infoText = "spawn_error"],
          spawned |-> FALSE, attempts |-> 1]
    ELSE [widget |-> [e EXCEPT !.proc = "popen", !.timer = TRUE],
          spawned |-> TRUE, attempts |-> 1]

\* EmbeddedAppWidget.__init__
EmbeddedAppWidget(isfile, w, h, spawnOk) ==
    IF ~isWindows
    THEN launch_external([NewWidget(isfile, w, h) EXCEPT !.infoText = "external_notice"],
                         spawnOk)
    ELSE launch_and_embed(NewWidget(isfile, w, h), spawnOk)

\* ------------------------------------------------------ navigation
\* MainWindow.open_project, reached from the home page's list.
open_project ==
    /\ mainOpen
    /\ nSessions < MaxSessions
    /\ stack[currentIndex + 1] = 0
    /\ \E isfile \in BOOLEAN, spawnOk \in BOOLEAN, size \in HostSizes :
         LET s == nSessions + 1
             r == EmbeddedAppWidget(isfile, size[1], size[2], spawnOk)
         IN /\ nSessions' = s
            /\ embed' = [embed EXCEPT ![s] = r.widget]
            /\ spawnAttempts' = [spawnAttempts EXCEPT ![s] = r.attempts]
            /\ osProc' = [osProc EXCEPT ![s] = IF r.spawned THEN "running" ELSE "none"]
            /\ view' = [view EXCEPT ![s] = "shown"]
            /\ stack' = Append(stack, s)
            /\ back_stack' = Append(back_stack, currentIndex)
            /\ currentIndex' = Len(stack)
            /\ lastHandler' = "open_project"
            /\ opLog' = <<>>
            /\ tickParity' = FALSE
            /\ raised' = FALSE
    /\ UNCHANGED <<isWindows, mainOpen, closeCalls, win>>

\* The host widget is destroyed: the windows reparented into it go with it.
DestroyChildren ==
    [w \in WindowIds |-> IF win[w].parent = "host" THEN Gone(win[w]) ELSE win[w]]

RemoveAt(seq, i) == [k \in 1..(Len(seq) - 1) |-> IF k < i THEN seq[k] ELSE seq[k + 1]]

\* MainWindow.go_back: removeWidget + deleteLater on the current page. The
\* page and its EmbeddedAppWidget (with its QTimer) are destroyed; no
\* closeEvent is sent to them.
go_back ==
    /\ mainOpen
    /\ back_stack # <<>>
    /\ LET current == currentIndex
           prev == back_stack[Len(back_stack)]
           widget == stack[current + 1]
       IN /\ back_stack' = SubSeq(back_stack, 1, Len(back_stack) - 1)
          /\ stack' = RemoveAt(stack, current + 1)
          /\ view' = [view EXCEPT ![widget] = "deleted"]
          /\ embed' = [embed EXCEPT ![widget] = NoWidget]
          /\ spawnAttempts' = [spawnAttempts EXCEPT ![widget] = 0]
          /\ closeCalls' = [closeCalls EXCEPT ![widget] = 0]
          /\ win' = DestroyChildren
          /\ currentIndex' = prev
          /\ lastHandler' = "go_back"
          /\ opLog' = <<>>
          /\ tickParity' = FALSE
          /\ raised' = FALSE
    /\ UNCHANGED <<isWindows, mainOpen, nSessions, osProc>>

\* The main window is closed: app.exec() returns and the widgets go away
\* with the application; MainWindow defines no closeEvent.
close_window ==
    /\ mainOpen
    /\ mainOpen' = FALSE
    /\ view' = [s \in Sessions |-> IF view[s] = "shown" THEN "deleted" ELSE view[s]]
    /\ embed' = [s \in Sessions |-> NoWidget]
    /\ spawnAttempts' = [s \in Sessions |-> 0]
    /\ closeCalls' = [s \in Sessions |-> 0]
    /\ win' = DestroyChildren
    /\ lastHandler' = "close_window"
    /\ opLog' = <<>>
    /\ tickParity' = FALSE
    /\ raised' = FALSE
    /\ UNCHANGED <<isWindows, nSessions, stack, currentIndex, back_stack, osProc>>

\* ------------------------------------------------------- poll tick
\* The outcomes of one tick. The enumeration is made outside the try block:
\* a window destroyed while the callback queries it makes the query, and
\* with it EnumWindows, raise.
\* The result logged for an EnumWindows call that raised (window ids are
\* positive, 0 is None).
EnumRaised == 0 - 1

TickChoices(e, h) ==
    IF ~isWindows \/ e.proc = "none" THEN {"none"}
    ELSE IF h = 0 THEN {"none", "enum_raise"}
    ELSE TickFaults \cup {"enum_raise"}

\* try_embed, run by the QTimer every 100 ms while the timer is active.
try_embed(s) ==
    /\ mainOpen
    /\ view[s] = "shown"
    /\ embed[s].timer
    /\ LET e == embed[s]
           h == IF ~isWindows \/ e.proc = "none" THEN 0
                ELSE find_main_window_for_pid(s)
       IN \E fault \in TickChoices(e, h) :
            IF fault = "enum_raise"
            THEN /\ opLog' = <<Op("EnumWindows", 65, EnumRaised)>>
                 /\ raised' = TRUE
                 /\ UNCHANGED <<embed, win>>
            ELSE IF h = 0
            THEN /\ opLog' = IF ~isWindows \/ e.proc = "none" THEN <<>>
                              ELSE <<Op("EnumWindows", 65, 0)>>
                 /\ raised' = FALSE
                 /\ UNCHANGED <<embed, win>>
            ELSE LET r == EmbedTry(win[h], fault, e.width, e.height)
                 IN /\ opLog' = <<Op("EnumWindows", 65, h)>> \o r.log
                    /\ raised' = FALSE
                    /\ win' = [win EXCEPT ![h] = r.win]
                    /\ embed' = [embed EXCEPT ![s] =
                          IF r.ok
                          THEN [e EXCEPT !.hwnd = h, !.infoVisible = FALSE,
                                         !.timer = FALSE]
                          ELSE [e EXCEPT !.hwnd = h, !.infoText = "embed_error"]]
    /\ tickParity' = ~tickParity
    /\ lastHandler' = "try_embed"
    /\ UNCHANGED <<isWindows, mainOpen, nSessions, stack, currentIndex, back_stack,
                   view, spawnAttempts, closeCalls, osProc>>

\* ---------------------------------------------------------- resize
\* resizeEvent with the widget's new size.
resizeEvent(s) ==
    /\ mainOpen
    /\ view[s] = "shown"
    /\ \E size \in HostSizes :
         LET e == [embed[s] EXCEPT !.width = size[1], !.height = size[2]]
         IN /\ embed' = [embed EXCEPT ![s] = e]
            /\ IF isWindows /\ e.hwnd # 0
               THEN LET r == resize_embedded(win[e.hwnd], e.width, e.height)
                    IN /\ win' = [win EXCEPT ![e.hwnd] = r.win]
                       /\ opLog' = r.log
                       /\ raised' = ~r.ok
               ELSE /\ win' = win
                    /\ opLog' = <<>>
                    /\ raised' = FALSE
    /\ lastHandler' = "resizeEvent"
    /\ tickParity' = FALSE
    /\ UNCHANGED <<isWindows, mainOpen, nSessions, stack, currentIndex, back_stack,
                   view, spawnAttempts, closeCalls, osProc>>

\* ----------------------------------------------------------- release
\* The "for _ in range(20)" loop from its i-th round on: one poll per
\* round (and a sleep after a poll that saw the process alive); the process
\* is seen exited from round exitAt on.
RECURSIVE GraceLoop(_, _)
GraceLoop(i, exitAt) ==
    IF i > GracePolls THEN <<>>
    ELSE IF i >= exitAt THEN <<Op("poll", 152, "exited")>>
    ELSE <<Op("poll", 152, "alive")>> \o GraceLoop(i + 1, exitAt)

\* The loop's calls for every exitAt.
GraceWait == [exitAt \in 1..(GracePolls + 2) |-> GraceLoop(1, exitAt)]

\* Mutant of CloseOps: the forced stop is issued whenever the loop ran to its
\* end, without the liveness check of line 155.
CloseOps_NoFinalPoll(pr, alive, termRaises, exitAt, killRaises) ==
    IF pr = "none" THEN [log |-> <<>>, alive |-> alive]
    ELSE IF ~alive THEN [log |-> <<Op("poll", 149, "exited")>>, alive |-> FALSE]
    ELSE IF termRaises
    THEN [log |-> <<Op("poll", 149, "alive"), Op("terminate", 150, "raise")>>,
          alive |-> TRUE]
    ELSE LET head == <<Op("poll", 149, "alive"), Op("terminate", 150, "ok")>>
                        \o GraceWait[exitAt]
         IN IF exitAt <= GracePolls
            THEN [log |-> head, alive |-> FALSE]
            ELSE [log |-> Append(head, Op("kill", 156,
                                          IF killRaises THEN "raise" ELSE "ok")),
                  alive |-> exitAt = GracePolls + 2 /\ killRaises]

\* The try block of closeEvent: the OS calls it makes and whether the
\* process runs afterwards. exitAt is the first grace-loop round at which the
\* process has exited; GracePolls+1: after the loop, before the last poll;
\* GracePolls+2: not within the wait.
CloseOps(pr, alive, termRaises, exitAt, killRaises) ==
    IF pr = "none" THEN [log |-> <<>>, alive |-> alive]
    ELSE IF ~alive THEN [log |-> <<Op("poll", 149, "exited")>>, alive |-> FALSE]
    ELSE IF termRaises
    THEN [log |-> <<Op("poll", 149, "alive"), Op("terminate", 150, "raise")>>,
          alive |-> TRUE]
    ELSE LET head == <<Op("poll", 149, "alive"), Op("terminate", 150, "ok")>>
                        \o GraceWait[exitAt]
         IN IF exitAt <= GracePolls + 1
            THEN [log |-> Append(head, Op("poll", 155, "exited")), alive |-> FALSE]
            ELSE [log |-> head \o <<Op("poll", 155, "alive"),
                                   Op("kill", 156, IF killRaises THEN "raise" ELSE "ok")>>,
                  alive |-> killRaises]

\* What the process and the OS do during one closeEvent: terminate raises;
\* or the process exits at grace-loop round k (GracePolls+1: after the loop);
\* or it outlives the wait and kill succeeds or raises.
CloseOutcomes ==
    {<<TRUE, 1, FALSE>>}
    \cup {<<FALSE, k, FALSE>> : k \in 1..(GracePolls + 1)}
    \cup {<<FALSE, GracePolls + 2, kr>> : kr \in BOOLEAN}

\* closeEvent, delivered by Qt when the widget is asked to close.
closeEvent(s) ==
    /\ mainOpen
    /\ view[s] = "shown"
    /\ \E o \in (IF embed[s].proc # "none" /\ osProc[s] = "running"
                THEN CloseOutcomes ELSE {<<FALSE, 1, FALSE>>}) :
         LET r == CloseOps(embed[s].proc, osProc[s] = "running", o[1], o[2], o[3])
             exits == osProc[s] = "running" /\ ~r.alive
         IN /\ opLog' = r.log
            /\ osProc' = [osProc EXCEPT ![s] = IF exits THEN "exited" ELSE @]
            /\ win' = [w \in WindowIds |->
                         IF exits /\ win[w].pid = s /\ win[w].st = "alive"
                         THEN Gone(win[w]) ELSE win[w]]
    /\ closeCalls' = [closeCalls EXCEPT ![s] = IF @ < 2 THEN @ + 1 ELSE @]
    /\ lastHandler' = "closeEvent"
    /\ tickParity' = FALSE
    /\ raised' = FALSE
    /\ UNCHANGED <<isWindows, mainOpen, nSessions, stack, currentIndex, back_stack,
                   view, embed, spawnAttempts>>

\* ------------------------------------------------------ environment
\* A running child process creates a top-level window.
WindowCreate(w) ==
    /\ mainOpen
    /\ win[w].st = "absent"
    /\ \E s \in Sessions, style \in InitStyles :
         /\ osProc[s] = "running"
         /\ win' = [win EXCEPT ![w] = [st |-> "alive", pid |-> s, style |-> style,
                                       parent |-> "desktop", geom |-> OrigGeom]]
    /\ lastHandler' = "env"
    /\ opLog' = <<>>
    /\ tickParity' = FALSE
    /\ raised' = FALSE
    /\ UNCHANGED <<isWindows, mainOpen, nSessions, stack, currentIndex, back_stack,
                   view, embed, spawnAttempts, closeCalls, osProc>>

\* A window is destroyed by its owner or by the user.
WindowVanish(w) ==
    /\ mainOpen
    /\ win[w].st = "alive"
    /\ win' = [win EXCEPT ![w] = Gone(@)]
    /\ lastHandler' = "env"
    /\ opLog' = <<>>
    /\ tickParity' = FALSE
    /\ raised' = FALSE
    /\ UNCHANGED <<isWindows, mainOpen, nSessions, stack, currentIndex, back_stack,
                   view, embed, spawnAttempts, closeCalls, osProc>>

\* A child process exits on its own; its windows go with it.
ProcessExit(s) ==
    /\ mainOpen
    /\ osProc[s] = "running"
    /\ osProc' = [osProc EXCEPT ![s] = "exited"]
    /\ win' = [w \in WindowIds |->
                 IF win[w].pid = s /\ win[w].st = "alive" THEN Gone(win[w]) ELSE win[w]]
    /\ lastHandler' = "env"
    /\ opLog' = <<>>
    /\ tickParity' = FALSE
    /\ raised' = FALSE
    /\ UNCHANGED <<isWindows, mainOpen, nSessions, stack, currentIndex, back_stack,
                   view, embed, spawnAttempts, closeCalls>>

Next ==
    \/ open_project
    \/ go_back
    \/ close_window
    \/ \E s \in Sessions : try_embed(s)
    \/ \E s \in Sessions : resizeEvent(s)
    \/ \E s \in Sessions : closeEvent(s)
    \/ \E w \in WindowIds : WindowCreate(w)
    \/ \E w \in WindowIds : WindowVanish(w)
    \/ \E s \in Sessions : ProcessExit(s)

Spec == Init /\ [][Next]_vars

\* The QTimer fires for as long as it is active and the event loop runs.
FairSpec == Spec /\ WF_vars(\E s \in Sessions : try_embed(s))

\* ------------------------------------------- any window style at all
\* The style bits the locator and the reshaper look at, and two they leave.
StyleBits == WS_OVERLAPPEDWINDOW \cup {"VISIBLE", "POPUP"}

\* One session is searching for the window of its process (the state after
\* open_project on Windows with a successful Popen) and one top-level window
\* exists, of any style and of this or of another process.
StyleInit ==
    /\ isWindows = TRUE
    /\ mainOpen = TRUE
    /\ nSessions = 1
    /\ stack = <<0, 1>>
    /\ currentIndex = 1
    /\ back_stack = <<0>>
    /\ view = [s \in Sessions |-> IF s = 1 THEN "shown" ELSE "none"]
    /\ embed = [s \in Sessions |->
                  IF s = 1 THEN launch_and_embed(NewWidget(TRUE, MIN_W, MIN_H), TRUE).widget
                  ELSE NoWidget]
    /\ spawnAttempts = [s \in Sessions |-> IF s = 1 THEN 1 ELSE 0]
    /\ closeCalls = [s \in Sessions |-> 0]
    /\ opLog = <<>>
    /\ osProc = [s \in Sessions |-> IF s = 1 THEN "running" ELSE "none"]
    /\ \E style \in SUBSET StyleBits, pid \in Sessions :
          win = [w \in WindowIds |->
                   IF w = 1 THEN [st |-> "alive", pid |-> pid, style |-> style,
                                  parent |-> "desktop", geom |-> OrigGeom]
                   ELSE NoWindow]
    /\ lastHandler = "open_project"
    /\ tickParity = FALSE
    /\ raised = FALSE

\* The poll timer ticks.
StyleNext == \E s \in Sessions : try_embed(s)

StyleSpec == StyleInit /\ [][StyleNext]_vars

\* ------------------------------------------------- session states
Shown(s) == view[s] = "shown"

\* The poll timer of the session runs.
Searching(s) == Shown(s) /\ embed[s].timer

\* The success path of try_embed has completed (the placeholder is hidden).
Embedded(s) == Shown(s) /\ ~embed[s].infoVisible

\* The widget's only channel to the user is its label; closeEvent never
\* writes it, so no failure to stop the process is ever shown there.
StopFailureReported(s) == embed[s].infoText = "stop_failed"

LogHas(name, res) == \E i \in 1..Len(opLog) : opLog[i].op = name /\ opLog[i].res = res
LogIdx(name) == {i \in 1..Len(opLog) : opLog[i].op = name}
GracePollIdx == {i \in LogIdx("poll") : opLog[i].line = 152}

\* ------------------------------------------------------------ claims

\* C1: when closeEvent has run on a session that owns a spawned process, the
\* process is not alive any more, or the failure to stop it has been reported.
C1_ReleaseStopsOrReports ==
    \A s \in Sessions :
        (lastHandler = "closeEvent" /\ Shown(s) /\ embed[s].proc # "none")
            => (osProc[s] # "running" \/ StopFailureReported(s))

\* C2: no child process that belongs to a discarded view is still alive
\* (discarding the view releases its session).
C2_DiscardedViewReleased ==
    \A s \in Sessions : view[s] = "deleted" => osProc[s] # "running"

\* C3: in every reachable state at most one launcher-spawned child process
\* is alive.
C3_AtMostOneChild ==
    Cardinality({s \in Sessions : osProc[s] = "running"}) <= 1

\* C4: a second (or later) closeEvent on the same session issues no
\* terminate and no kill.
C4_ReleaseIdempotent ==
    \A s \in Sessions :
        (lastHandler = "closeEvent" /\ Shown(s) /\ closeCalls[s] >= 2)
            => (LogIdx("terminate") = {} /\ LogIdx("kill") = {})

\* C5: in every closeEvent, terminate is issued at most once, first, and only
\* after a poll that saw the process alive; the grace loop polls at most
\* GracePolls times and stops at the first poll that sees the process exited;
\* kill is issued at most once, last, only after a delivered terminate, after
\* GracePolls polls that all saw the process alive and after a final poll that
\* still saw it alive, never when any poll saw it exited.
C5_EscalationOrder ==
    lastHandler = "closeEvent" =>
        /\ Cardinality(LogIdx("terminate")) <= 1
        /\ Cardinality(LogIdx("kill")) <= 1
        /\ \A t \in LogIdx("terminate") :
              /\ t = 2
              /\ opLog[1] = Op("poll", 149, "alive")
        /\ Cardinality(GracePollIdx) <= GracePolls
        /\ \A i \in GracePollIdx :
              /\ LogHas("terminate", "ok")
              /\ opLog[i].res = "exited" => \A j \in GracePollIdx : j <= i
        /\ \A k \in LogIdx("kill") :
              /\ k = Len(opLog)
              /\ LogHas("terminate", "ok")
              /\ \A t \in LogIdx("terminate") : t < k
              /\ Cardinality(GracePollIdx) = GracePolls
              /\ ~LogHas("poll", "exited")
              /\ opLog[k - 1] = Op("poll", 155, "alive")

\* C5 witness: a closeEvent that waited the whole grace loop and then killed.
C5_Witness ==
    /\ lastHandler = "closeEvent"
    /\ LogHas("terminate", "ok")
    /\ LogHas("kill", "ok")
    /\ Cardinality(GracePollIdx) = GracePolls

\* C6: a session whose executable path is not an existing file never
\* attempts a spawn, owns no process and runs no poll timer.
C6_NotFoundNeverSpawns ==
    \A s \in Sessions :
        (Shown(s) /\ ~embed[s].exe_file)
            => /\ spawnAttempts[s] = 0
               /\ osProc[s] = "none"
               /\ embed[s].proc = "none"
               /\ ~embed[s].timer

\* C7: a session that polls and finds no window eventually stops polling
\* (or a window is found).
C7_SearchBounded ==
    \A s \in Sessions :
        Searching(s) ~> (~Searching(s) \/ find_main_window_for_pid(s) # 0)

\* C8: a poll tick whose style mutation and reparenting succeeded leaves the
\* session Embedded: placeholder hidden and poll timer stopped.
C8_ReparentedIsEmbedded ==
    \A s \in Sessions :
        (lastHandler = "try_embed" /\ Shown(s) /\ LogHas("SetWindowLong", "ok")
            /\ LogHas("SetParent", "ok"))
            => (Embedded(s) /\ ~embed[s].timer)

\* C9: after a resizeEvent handled while Embedded, the embedded window (if it
\* still exists) is at origin (0,0) with exactly the host's width and height.
C9_ResizeFillsHost ==
    \A s \in Sessions :
        (lastHandler = "resizeEvent" /\ Embedded(s) /\ embed[s].hwnd \in WindowIds)
            => (win[embed[s].hwnd].st = "alive"
                  => win[embed[s].hwnd].geom = <<0, 0, embed[s].width, embed[s].height>>)

\* C9 witness: an Embedded session has handled a resize to the larger size and
\* its window fills the host.
C9_Witness ==
    \E s \in Sessions :
        /\ lastHandler = "resizeEvent"
        /\ Embedded(s)
        /\ embed[s].hwnd \in WindowIds
        /\ win[embed[s].hwnd].st = "alive"
        /\ win[embed[s].hwnd].parent = "host"
        /\ embed[s].width = MIN_W + 1
        /\ win[embed[s].hwnd].geom = <<0, 0, MIN_W + 1, MIN_H + 1>>

\* C10: a window that has not been reparented into the host is never moved:
\* it keeps the geometry its process gave it.
C10_MoveOnlyEmbedded ==
    \A w \in WindowIds :
        (win[w].st = "alive" /\ win[w].parent = "desktop") => win[w].geom = OrigGeom

\* C11: when a resizeEvent of an Embedded session finds its window gone
\* (MoveWindow raises), the session is Searching again with the window
\* reference dropped, and nothing was raised out of resizeEvent.
C11_StaleResizeRecovers ==
    \A s \in Sessions :
        (lastHandler = "resizeEvent" /\ Embedded(s) /\ LogHas("MoveWindow", "raise"))
            => (Searching(s) /\ embed[s].hwnd = 0 /\ ~raised)

\* C12: a poll tick of a session on which closeEvent has run makes no OS
\* call at all: no enumeration, no style change, no reparenting, no move.
C12_NoSearchAfterRelease ==
    \A s \in Sessions :
        (lastHandler = "try_embed" /\ Shown(s) /\ closeCalls[s] >= 1)
            => opLog = <<>>

\* C13: without reparenting (IS_WINDOWS false) a session that spawned its
\* process keeps the process handle, runs no search, and once closeEvent
\* has run on it the process is not alive.
C13_ExternalReleaseStops ==
    \A s \in Sessions :
        (~isWindows /\ Shown(s) /\ osProc[s] # "none")
            => /\ embed[s].proc # "none"
               /\ ~embed[s].timer
               /\ closeCalls[s] >= 1 => osProc[s] # "running"

\* C14: no poll tick, resize callback or release call lets an exception
\* escape, whatever the OS calls do.
C14_NoFailureEscapes ==
    lastHandler \in {"try_embed", "resizeEvent", "closeEvent"} => ~raised

\* C15: after a poll tick whose discovered window vanished before the style
\* mutation or the reparenting, the session is Searching and holds no window
\* reference.
C15_VanishRecoverable ==
    \A s \in Sessions, h \in WindowIds :
        (/\ lastHandler = "try_embed"
         /\ Shown(s)
         /\ Len(opLog) >= 2
         /\ opLog[1].op = "EnumWindows"
         /\ opLog[1].res = h
         /\ win[h].st = "gone"
         /\ (LogHas("GetWindowLong", "raise") \/ LogHas("SetParent", "raise")))
            => (Searching(s) /\ embed[s].hwnd = 0)

\* C16: a session that has shown a failure message (embedding error or spawn
\* error) polls no more and is not Embedded.
C16_FailedIsTerminal ==
    \A s \in Sessions :
        (Shown(s) /\ embed[s].infoText \in {"embed_error", "spawn_error", "err_external"})
            => (~embed[s].timer /\ ~Embedded(s))

\* C17: every widget attempts a spawn at most once; when the spawn raised,
\* the failure message is on the visible label, no process handle is stored,
\* no poll timer runs, no poll tick happens and a closeEvent makes no process
\* call and raises nothing.
C17_SpawnFailureFatal ==
    \A s \in Sessions :
        /\ spawnAttempts[s] <= 1
        /\ (Shown(s) /\ spawnAttempts[s] = 1 /\ osProc[s] = "none")
              => /\ embed[s].infoText \in {"spawn_error", "err_external"}
                 /\ embed[s].infoVisible
                 /\ embed[s].proc = "none"
                 /\ embed[s].hwnd = 0
                 /\ ~embed[s].timer
                 /\ lastHandler # "try_embed"
                 /\ lastHandler = "closeEvent" => (opLog = <<>> /\ ~raised)

\* C17 witness: closeEvent has run on a session whose spawn raised while an
\* executable file existed.
C17_Witness ==
    \E s \in Sessions :
        /\ Shown(s)
        /\ isWindows
        /\ embed[s].exe_file
        /\ spawnAttempts[s] = 1
        /\ osProc[s] = "none"
        /\ lastHandler = "closeEvent"
        /\ closeCalls[s] >= 1
        /\ embed[s].infoText = "spawn_error"

\* C18: a window returned by find_main_window_for_pid is visible, belongs to
\* the given pid and has a title bar (the whole of WS_CAPTION) or the whole
\* standard overlapped-window decoration; it is the first such window in
\* enumeration order.
C18_LocatorSelectsAppWindows ==
    \A p \in Sessions :
        LET h == find_main_window_for_pid(p)
        IN h # 0 =>
             /\ win[h].st = "alive"
             /\ "VISIBLE" \in win[h].style
             /\ win[h].pid = p
             /\ (WS_CAPTION \subseteq win[h].style
                   \/ WS_OVERLAPPEDWINDOW \subseteq win[h].style)
             /\ \A v \in EnumWindows : callback(v, p) => h <= v

\* C19: the style a poll tick writes to the found window is the style it
\* read without the caption (border and dialog-frame), thick-frame,
\* minimize-box, maximize-box and system-menu bits, every other bit as it
\* was; stripping the written style again changes nothing.
C19_StripExactIdempotent ==
    [][\A w \in WindowIds :
         (/\ lastHandler' = "try_embed"
          /\ LogHas("SetWindowLong", "ok")'
          /\ opLog'[1].res = w
          /\ win'[w].st = "alive")
            => /\ win'[w].style =
                    win[w].style \ {"BORDER", "DLGFRAME", "THICKFRAME",
                                    "MINIMIZEBOX", "MAXIMIZEBOX", "SYSMENU"}
               /\ StripDecorations(win'[w].style) = win'[w].style]_vars

\* C19 witness: a poll tick has written the style of the window it found and
\* the window keeps exactly its two undecorated bits.
C19_Witness ==
    \E w \in WindowIds :
        /\ lastHandler = "try_embed"
        /\ LogHas("SetWindowLong", "ok")
        /\ opLog[1].res = w
        /\ win[w].st = "alive"
        /\ win[w].style = {"VISIBLE", "POPUP"}

\* C20: a window whose style has none of the stripped bits does not satisfy
\* the locator's callback for any pid; a window whose style a poll tick
\* stripped while its reparenting failed is not returned by the locator.
C20_StrippedNeverFound ==
    /\ \A w \in WindowIds, p \in Sessions :
          (win[w].st = "alive" /\ StripDecorations(win[w].style) = win[w].style)
             => (~callback(w, p) /\ find_main_window_for_pid(p) # w)
    /\ \A w \in WindowIds, p \in Sessions :
          (/\ lastHandler = "try_embed"
           /\ LogHas("SetWindowLong", "ok")
           /\ LogHas("SetParent", "raise")
           /\ opLog[1].res = w
           /\ win[w].st = "alive")
             => (win[w].parent = "desktop" /\ find_main_window_for_pid(p) # w)

\* C20 witness: a later poll tick of the session that once found the window
\* enumerates and finds nothing, the stripped window still being a visible
\* top-level window of the session's process.
C20_Witness ==
    \E s \in Sessions, w \in WindowIds :
        /\ Shown(s)
        /\ embed[s].hwnd = w
        /\ embed[s].timer
        /\ win[w].st = "alive"
        /\ win[w].parent = "desktop"
        /\ win[w].pid = s
        /\ "VISIBLE" \in win[w].style
        /\ win[w].style \cap WS_OVERLAPPEDWINDOW = {}
        /\ lastHandler = "try_embed"
        /\ opLog = <<Op("EnumWindows", 65, 0)>>
====
